---- MODULE Spec2Model ----
(***************************************************************************)
(* Model of the Hertz invoicing engine (hertz-completo/app.py): the        *)
(* HertzProcessor repository (active estimates, active purchase orders,    *)
(* generated invoices, numbering state), its durable mirror                *)
(* hertz_data.json, the output folder, and the request handlers that       *)
(* mutate them.                                                            *)
(*                                                                         *)
(* Amounts are integers in units of 1/10000 EUR, so that 22% of an amount  *)
(* given in whole cents is exact.  A Python None in a string field is the  *)
(* string "None" (what an f-string prints for it); an unset date is the    *)
(* empty tuple; a canonical date YYYY-MM-DD is the tuple <<Y, M, D>>,      *)
(* whose lexicographic order is the order of the canonical strings.        *)
(***************************************************************************)
EXTENDS Integers, Sequences, FiniteSets, TLC

VARIABLES
    preventivi,        \* self.data['preventivi']       (active estimates, in stored order)
    purchase_orders,   \* self.data['purchase_orders']  (active purchase orders, in stored order)
    fatture_generate,  \* self.data['fatture_generate'] (GeneratedInvoice records)
    config,            \* self.data['config']           (numbering state)
    disk,              \* contents of hertz_data.json
    outputs,           \* names of the files in OUTPUT_FOLDER
    current_year,      \* datetime.now().year
    issued,            \* history: per category, the number generate_xml issued last in
                       \*   the calendar year current_year, 0 if none yet
    manual,            \* history: update_numerazione has set the counters in the
                       \*   calendar year current_year
    threads,           \* the generation requests the server threads are serving
    hand_set           \* history: update_numerazione has set the counters since
                       \*   generate_xml last reset them for a new year

vars == <<preventivi, purchase_orders, fatture_generate, config, disk, outputs,
          current_year, issued, manual, threads, hand_set>>

data_vars == <<preventivi, purchase_orders, fatture_generate, config>>

----------------------------------------------------------------------------
(* Bounds *)

MaxNumber == 2       \* largest value a counter may reach
MaxYearSteps == 1    \* year changes in one behaviour
MaxField == 32       \* largest value of a one- or two-digit field of a date token

(* Program constants *)

BaseYear == 2025
VatPerc == 22
SentinelDate == <<9999, 99, 99>>

None == "None"
NoDate == <<>>
NoToken == <<>>

Eur(e, c) == (e * 100 + c) * 100

----------------------------------------------------------------------------
(* The documents that can be uploaded: the fields the parsers extract, and  *)
(* `now`, the instant datetime.now() returns while the document is parsed. *)
(* A date-shaped token \d{1,2}[/-]\d{1,2}[/-]\d{4} of the text is the tuple  *)
(* <<d1, sep1, d2, sep2, yyyy>>; date_label is the token that follows       *)
(* "Date:", date_bare the first token of the text (<<>> if there is none). *)
(* Stored documents are told apart by that instant only (delete_document), *)
(* so each document of the universe is given one instant of its own.       *)

PdfPrevA == [now |-> 1, type |-> "preventivo", pratica_hertz |-> "1001", po_number |-> None,
             targa |-> "AB123CD", has_tyres |-> FALSE, date_label |-> NoToken, date_bare |-> NoToken,
             items |-> <<[total |-> Eur(400, 0)], [total |-> Eur(600, 0)]>>]
PdfPrevB == [now |-> 2, type |-> "preventivo", pratica_hertz |-> "1002", po_number |-> None,
             targa |-> None, has_tyres |-> FALSE, date_label |-> NoToken, date_bare |-> NoToken,
             items |-> <<[total |-> Eur(3, 33)]>>]
PdfPO7 == [now |-> 3, type |-> "purchase_order", pratica_hertz |-> "1001", po_number |-> "7",
           targa |-> "AB123CD", has_tyres |-> FALSE, date_label |-> <<25, "/", 12, "/", 2024>>,
           date_bare |-> <<25, "/", 12, "/", 2024>>,
           items |-> <<>>]
PdfPO8 == [now |-> 4, type |-> "purchase_order", pratica_hertz |-> "1002", po_number |-> "8",
           targa |-> None, has_tyres |-> FALSE, date_label |-> NoToken,
           date_bare |-> <<5, "-", 1, "-", 2024>>,
           items |-> <<>>]
PdfPO9 == [now |-> 5, type |-> "purchase_order", pratica_hertz |-> "1001", po_number |-> "9",
           targa |-> "ZZ999ZZ", has_tyres |-> TRUE, date_label |-> NoToken, date_bare |-> NoToken,
           items |-> <<>>]
PdfOther == [now |-> 6, type |-> None, pratica_hertz |-> None, po_number |-> None,
             targa |-> None, has_tyres |-> FALSE, date_label |-> NoToken, date_bare |-> NoToken,
             items |-> <<>>]

Pdfs == {PdfPrevA, PdfPrevB, PdfPO7, PdfPO8, PdfPO9, PdfOther}
Pratiche == {"1001", "1002", "1003"}
FailModes == {"ok", "render", "write"}

----------------------------------------------------------------------------
(* Helpers *)

Truthy(s) == s # None /\ s # ""

RECURSIVE SumTotals(_)
SumTotals(items) ==
    IF items = <<>> THEN 0 ELSE Head(items).total + SumTotals(Tail(items))

SetMin(S) == CHOOSE x \in S : \A y \in S : x <= y

DateLE(a, b) ==
    \/ a[1] < b[1]
    \/ a[1] = b[1] /\ a[2] < b[2]
    \/ a[1] = b[1] /\ a[2] = b[2] /\ a[3] <= b[3]

Pad2(n) == IF n < 10 THEN "0" \o ToString(n) ELSE ToString(n)
zfill3(n) ==
    IF n < 10 THEN "00" \o ToString(n)
    ELSE IF n < 100 THEN "0" \o ToString(n) ELSE ToString(n)

----------------------------------------------------------------------------
(* Date normalisation of parse_purchase_order *)

Formats_monthFirst == <<[first |-> "m", sep |-> "/"], [first |-> "m", sep |-> "-"],
                        [first |-> "d", sep |-> "/"], [first |-> "d", sep |-> "-"]>>

\* the layouts in the order they are tried: %d/%m/%Y, %d-%m-%Y, %m/%d/%Y, %m-%d-%Y
Formats == <<[first |-> "d", sep |-> "/"], [first |-> "d", sep |-> "-"],
             [first |-> "m", sep |-> "/"], [first |-> "m", sep |-> "-"]>>

IsLeap(y) == (y % 4 = 0 /\ y % 100 # 0) \/ y % 400 = 0

DaysInMonth(y, m) ==
    IF m = 2 THEN (IF IsLeap(y) THEN 29 ELSE 28)
    ELSE IF m \in {4, 6, 9, 11} THEN 30 ELSE 31

\* datetime.strptime(token, fmt): the date, or NoDate where it raises ValueError
strptime(tok, fmt) ==
    LET day == IF fmt.first = "d" THEN tok[1] ELSE tok[3]
        month == IF fmt.first = "d" THEN tok[3] ELSE tok[1]
        year == tok[5]
    IN  IF /\ tok[2] = fmt.sep
           /\ tok[4] = fmt.sep
           /\ month \in 1..12
           /\ day \in 1..31
           /\ year \in 1..9999
           /\ day <= DaysInMonth(year, month)
        THEN <<year, month, day>>
        ELSE NoDate

\* the for-loop over the layouts: the first one that parses, break
RECURSIVE FirstParse(_, _)
FirstParse(tok, fmts) ==
    IF fmts = <<>> THEN NoDate
    ELSE IF strptime(tok, Head(fmts)) # NoDate THEN strptime(tok, Head(fmts))
    ELSE FirstParse(tok, Tail(fmts))

NormaliseDate(tok) == FirstParse(tok, Formats)

\* strftime('%Y-%m-%d') of a date of a four-digit year
strftime(date) == ToString(date[1]) \o "-" \o Pad2(date[2]) \o "-" \o Pad2(date[3])

\* the labelled token first; the first bare token when that left no date
ParseDate(pdf) ==
    LET labelled == IF pdf.date_label # NoToken THEN NormaliseDate(pdf.date_label)
                    ELSE NoDate
    IN  IF labelled # NoDate THEN labelled
        ELSE IF pdf.date_bare # NoToken THEN NormaliseDate(pdf.date_bare)
        ELSE NoDate

----------------------------------------------------------------------------
(* Field parsers: the record built from a document and the timestamp id.   *)
(* description, the head of the text, stands for the date tokens in it.    *)

parse_preventivo(pdf, id) ==
    [id |-> id, type |-> "preventivo", pratica_hertz |-> pdf.pratica_hertz,
     targa |-> pdf.targa, items |-> pdf.items, totale |-> SumTotals(pdf.items)]

parse_purchase_order(pdf, id) ==
    [id |-> id, type |-> "purchase_order", po_number |-> pdf.po_number,
     pratica_hertz |-> pdf.pratica_hertz, targa |-> pdf.targa,
     date |-> ParseDate(pdf), has_tyres |-> pdf.has_tyres,
     description |-> <<pdf.date_label, pdf.date_bare>>]

detect_type(pdf) == pdf.type

----------------------------------------------------------------------------
(* Matcher *)

is_po_invoiced(fatture, po_number) ==
    \E i \in 1..Len(fatture) : fatture[i].po_number = po_number

MatchOf_lastPo(prev, pos, fatture) ==
    LET same == {i \in 1..Len(pos) : pos[i].pratica_hertz = prev.pratica_hertz}
    IN  IF same = {} THEN <<>>
        ELSE LET po == pos[CHOOSE i \in same : \A j \in same : j <= i]
             IN  IF ~is_po_invoiced(fatture, po.po_number)
                 THEN <<[preventivo |-> prev, po |-> po]>>
                 ELSE <<>>

\* the inner loop of get_stats for one estimate: the first purchase order
\* with the estimate's case id decides (break), matched unless invoiced
MatchOf(prev, pos, fatture) ==
    LET same == {i \in 1..Len(pos) : pos[i].pratica_hertz = prev.pratica_hertz}
    IN  IF same = {} THEN <<>>
        ELSE LET po == pos[SetMin(same)]
             IN  IF ~is_po_invoiced(fatture, po.po_number)
                 THEN <<[preventivo |-> prev, po |-> po]>>
                 ELSE <<>>

RECURSIVE MatchesOf(_, _, _)
MatchesOf(prevs, pos, fatture) ==
    IF prevs = <<>> THEN <<>>
    ELSE MatchOf(Head(prevs), pos, fatture) \o MatchesOf(Tail(prevs), pos, fatture)

get_stats(prevs, pos, fatture) ==
    LET matches == MatchesOf(prevs, pos, fatture)
        matched_pratiche_prev ==
            {matches[i].preventivo.pratica_hertz : i \in 1..Len(matches)}
        matched_pratiche_po ==
            {matches[i].po.pratica_hertz : i \in 1..Len(matches)}
        PrevWaits(p) == p.pratica_hertz \notin matched_pratiche_prev
        PoWaits(p) == /\ p.pratica_hertz \notin matched_pratiche_po
                      /\ ~is_po_invoiced(fatture, p.po_number)
    IN  [matches |-> matches,
         prev_in_attesa |-> SelectSeq(prevs, PrevWaits),
         po_in_attesa |-> SelectSeq(pos, PoWaits)]


----------------------------------------------------------------------------
(* The repository as one value, and its mirror *)

Repo == [preventivi |-> preventivi, purchase_orders |-> purchase_orders,
         fatture_generate |-> fatture_generate, config |-> config,
         disk |-> disk, outputs |-> outputs, issued |-> issued, hand_set |-> hand_set]

DataOf(r) == [preventivi |-> r.preventivi, purchase_orders |-> r.purchase_orders,
              fatture_generate |-> r.fatture_generate, config |-> r.config]

save_data(r) == [r EXCEPT !.disk = DataOf(r)]

SetRepo(r) ==
    /\ preventivi' = r.preventivi
    /\ purchase_orders' = r.purchase_orders
    /\ fatture_generate' = r.fatture_generate
    /\ config' = r.config
    /\ disk' = r.disk
    /\ outputs' = r.outputs
    /\ issued' = r.issued
    /\ hand_set' = r.hand_set

NoIssue == [t \in {"HG", "HM"} |-> 0]

----------------------------------------------------------------------------
(* Invoice generator *)

YearRollover(cfg, year) ==
    IF cfg.year # year
    THEN [year |-> year, last_number_hg |-> 0, last_number_hm |-> 0]
    ELSE cfg

NextNumber_bothCounters(cfg, is_tyres) ==
    [cfg EXCEPT !.last_number_hg = @ + 1, !.last_number_hm = @ + 1]

NextNumber(cfg, is_tyres) ==
    IF is_tyres
    THEN [cfg EXCEPT !.last_number_hg = @ + 1]
    ELSE [cfg EXCEPT !.last_number_hm = @ + 1]

InvoiceNumber(cfg, is_tyres) ==
    IF is_tyres THEN cfg.last_number_hg ELSE cfg.last_number_hm

NumberingSuffix(is_tyres) == IF is_tyres THEN "HG" ELSE "HM"

VatAmount_onGross(total_without_tax) == (total_without_tax * VatPerc) \div (100 + VatPerc)

VatAmount(total_without_tax) == (total_without_tax * VatPerc) \div 100

InvoiceTarga(prev, po) ==
    IF Truthy(prev.targa) THEN prev.targa
    ELSE IF Truthy(po.targa) THEN po.targa ELSE "NOTARGA"

DatePrefix(po_date) ==
    IF po_date # NoDate
    THEN ToString(po_date[1]) \o Pad2(po_date[2]) \o Pad2(po_date[3]) \o "_"
    ELSE ""

InvoiceFilename(invoice_number, po, targa) ==
    "Fatt_" \o zfill3(invoice_number) \o "_PO_" \o po.po_number \o "_" \o targa \o ".xml"

RetirePreventivi(prevs, prev) ==
    LET Keep(p) == p.pratica_hertz # prev.pratica_hertz IN SelectSeq(prevs, Keep)

RetirePurchaseOrders_byPratica(pos, po) ==
    LET Keep(p) == p.pratica_hertz # po.pratica_hertz IN SelectSeq(pos, Keep)

RetirePurchaseOrders(pos, po) ==
    LET Keep(p) == p.po_number # po.po_number IN SelectSeq(pos, Keep)

\* generate_xml up to the increment of the counter (lines 377-418, or -422)
CountInvoice(r, match, year) ==
    [r EXCEPT !.config = NextNumber(YearRollover(r.config, year), match.po.has_tyres),
              !.hand_set = @ /\ r.config.year = year]

\* generate_xml from the read of the counter on (lines 419, or 423, -513), on the
\* repository `counted` that the first part, and whoever ran since, left
IssueInvoice(counted, match, fail, year) ==
    LET prev == match.preventivo
        po == match.po
        is_tyres == po.has_tyres
        invoice_number == InvoiceNumber(counted.config, is_tyres)
        numbering_suffix == NumberingSuffix(is_tyres)
        total_without_tax == SumTotals(prev.items)
        vat_amount == VatAmount(total_without_tax)
        total == total_without_tax + vat_amount
        targa == InvoiceTarga(prev, po)
        filename == InvoiceFilename(invoice_number, po, targa)
        fattura == [po_number |-> po.po_number, targa |-> targa,
                    pratica_hertz |-> prev.pratica_hertz, filename |-> filename,
                    numero_fattura |-> invoice_number, tipo |-> numbering_suffix,
                    totale |-> total, data_po |-> po.date,
                    data_generazione |-> year]
        written == [counted EXCEPT
                      !.outputs = @ \cup {filename},
                      !.fatture_generate = Append(@, fattura),
                      !.preventivi = RetirePreventivi(@, prev),
                      !.purchase_orders = RetirePurchaseOrders(@, po),
                      !.issued[numbering_suffix] = invoice_number]
    IN  IF fail # "ok"
        THEN [repo |-> counted, raised |-> TRUE, filename |-> "", totale |-> 0,
              total_without_tax |-> total_without_tax, vat_amount |-> vat_amount]
        ELSE [repo |-> save_data(written), raised |-> FALSE, filename |-> filename,
              totale |-> total,
              total_without_tax |-> total_without_tax, vat_amount |-> vat_amount]

\* generate_xml on repository r at year `year`; `fail` says where it raises:
\* "render" in tostring/parseString/toprettyxml, "write" in open/write of the
\* output file, "ok" nowhere.  The numbering state is updated in place before
\* either can raise and nothing restores it.
generate_xml(r, match, fail, year) ==
    IssueInvoice(CountInvoice(r, match, year), match, fail, year)

----------------------------------------------------------------------------
(* Ingestion gate *)

PraticheFatturate(fatture) == {fatture[i].pratica_hertz : i \in 1..Len(fatture)}
PoFatturati(fatture) == {fatture[i].po_number : i \in 1..Len(fatture)}
PraticheAttive(prevs) == {prevs[i].pratica_hertz : i \in 1..Len(prevs)}
PoAttivi(pos) == {pos[i].po_number : i \in 1..Len(pos)}

PreventivoFatturato_byPoNumber(doc, fatture) == doc.pratica_hertz \in PoFatturati(fatture)
PurchaseOrderFatturato_never(doc, fatture) == FALSE
PreventivoExisting_never(doc, prevs) == FALSE

PreventivoFatturato(doc, fatture) == doc.pratica_hertz \in PraticheFatturate(fatture)
PurchaseOrderFatturato(doc, fatture) == doc.po_number \in PoFatturati(fatture)
PreventivoExisting(doc, prevs) == doc.pratica_hertz \in PraticheAttive(prevs)
PurchaseOrderExisting(doc, pos) == doc.po_number \in PoAttivi(pos)

\* process_pdf on a document classified as an estimate
IngestPreventivo(r, doc) ==
    IF PreventivoFatturato(doc, r.fatture_generate)
    THEN [repo |-> r, status |-> "preventivo_fatturato"]
    ELSE IF ~PreventivoExisting(doc, r.preventivi)
    THEN [repo |-> save_data([r EXCEPT !.preventivi = Append(@, doc)]),
          status |-> "preventivo"]
    ELSE [repo |-> r, status |-> "preventivo"]

\* process_pdf on a document classified as a purchase order
IngestPurchaseOrder(r, doc) ==
    IF PurchaseOrderFatturato(doc, r.fatture_generate)
    THEN [repo |-> r, status |-> "purchase_order_fatturato"]
    ELSE IF ~PurchaseOrderExisting(doc, r.purchase_orders)
    THEN [repo |-> save_data([r EXCEPT !.purchase_orders = Append(@, doc)]),
          status |-> "purchase_order"]
    ELSE [repo |-> r, status |-> "purchase_order"]

\* process_pdf: the repository it leaves and the status it returns
ProcessPdf(r, pdf) ==
    LET doc_type == detect_type(pdf) IN
    IF doc_type = "preventivo"
    THEN IngestPreventivo(r, parse_preventivo(pdf, pdf.now))
    ELSE IF doc_type = "purchase_order"
    THEN IngestPurchaseOrder(r, parse_purchase_order(pdf, pdf.now))
    ELSE [repo |-> r, status |-> None]

process_pdf(pdf) ==
    /\ SetRepo(ProcessPdf(Repo, pdf).repo)
    /\ UNCHANGED <<current_year, manual, threads>>

----------------------------------------------------------------------------
(* Request handlers *)

StatsOf(r) == get_stats(r.preventivi, r.purchase_orders, r.fatture_generate)

\* the routes that only call get_stats and render its result (dashboard,
\* lavori, documenti, configurazione, api_stats): the repository they leave
\* and the statistics they answer
ApiStats_consuming(r) ==
    [repo |-> [r EXCEPT !.preventivi = StatsOf(r).prev_in_attesa], stats |-> StatsOf(r)]

ApiStats(r) == [repo |-> r, stats |-> StatsOf(r)]

api_stats ==
    /\ SetRepo(ApiStats(Repo).repo)
    /\ UNCHANGED <<current_year, manual, threads>>

CounterRoom(n) ==
    /\ config.last_number_hg + n <= MaxNumber
    /\ config.last_number_hm + n <= MaxNumber

\* the match genera_fattura generates for a case id: the first one of get_stats
\* whose estimate carries it; <<>> if there is none (404)
MatchFound(r, pratica_hertz) ==
    LET matches == StatsOf(r).matches
        found == {i \in 1..Len(matches) :
                     matches[i].preventivo.pratica_hertz = pratica_hertz}
    IN  IF found = {} THEN <<>> ELSE <<matches[SetMin(found)]>>

\* genera_fattura: the repository it leaves and what it answers
GeneraFattura(r, pratica_hertz, fail, year) ==
    LET m == MatchFound(r, pratica_hertz)
    IN  IF m = <<>>
        THEN [repo |-> r, status |-> "not_found", filename |-> "", totale |-> 0]
        ELSE LET res == generate_xml(r, m[1], fail, year)
             IN  [repo |-> res.repo,
                  status |-> IF res.raised THEN "error" ELSE "success",
                  filename |-> res.filename, totale |-> res.totale]

genera_fattura(pratica_hertz, fail) ==
    /\ MatchFound(Repo, pratica_hertz) # <<>> => CounterRoom(1)
    /\ SetRepo(GeneraFattura(Repo, pratica_hertz, fail, current_year).repo)
    /\ UNCHANGED <<current_year, manual, threads>>

DateKey(m) == IF m.po.date # NoDate THEN m.po.date ELSE SentinelDate

\* sorted() is stable: a match goes after every match whose key is not larger
InsertByDate(sorted, m) ==
    LET k == Cardinality({i \in 1..Len(sorted) : DateLE(DateKey(sorted[i]), DateKey(m))})
    IN  SubSeq(sorted, 1, k) \o <<m>> \o SubSeq(sorted, k + 1, Len(sorted))

SortedMatches_storedOrder(ms) == ms

RECURSIVE SortedMatches(_)
SortedMatches(ms) ==
    IF ms = <<>> THEN <<>>
    ELSE InsertByDate(SortedMatches(SubSeq(ms, 1, Len(ms) - 1)), ms[Len(ms)])

\* the loop of genera_tutti over the sorted matches ms, from the i-th on:
\* fails[i] says where the i-th generate_xml raises; each generate_xml reads
\* the clock itself, and the calendar year changes after `turn` of them
\* (turn = Len(ms): it does not change during the loop)
RECURSIVE GenerateEach(_, _, _, _, _, _, _)
GenerateEach(r, ms, fails, year, turn, i, generated) ==
    IF i > Len(ms) THEN [repo |-> r, generated |-> generated]
    ELSE LET now == IF i = turn + 1 THEN [r EXCEPT !.issued = NoIssue] ELSE r
             res == generate_xml(now, ms[i], fails[i], IF i <= turn THEN year ELSE year + 1)
         IN  GenerateEach(res.repo, ms, fails, year, turn, i + 1,
                          IF res.raised THEN generated
                          ELSE Append(generated, [filename |-> res.filename,
                                                  totale |-> res.totale]))

\* genera_tutti: the repository it leaves and the list it reports
GeneraTutti(r, fails, year, turn) ==
    GenerateEach(r, SortedMatches(StatsOf(r).matches), fails, year, turn, 1, <<>>)

\* the points of a batch of n matches at which the year may change: n for
\* not at all, else after at least one and before the last generate_xml
Turns(n) == {n} \cup (1..(n - 1))

genera_tutti(fails, turn) ==
    /\ Len(fails) = Len(StatsOf(Repo).matches)
    /\ CounterRoom(Len(fails))
    /\ turn \in Turns(Len(fails))
    /\ turn < Len(fails) => current_year < BaseYear + MaxYearSteps
    /\ SetRepo(GeneraTutti(Repo, fails, current_year, turn).repo)
    /\ current_year' = IF turn < Len(fails) THEN current_year + 1 ELSE current_year
    /\ manual' = (manual /\ turn = Len(fails))
    /\ UNCHANGED threads

DeleteDocument(r, doc_type, doc_id) ==
    LET Keep(p) == p.id # doc_id
    IN  save_data(IF doc_type = "preventivo"
                  THEN [r EXCEPT !.preventivi = SelectSeq(@, Keep)]
                  ELSE IF doc_type = "purchase_order"
                  THEN [r EXCEPT !.purchase_orders = SelectSeq(@, Keep)]
                  ELSE r)

delete_document(doc_type, doc_id) ==
    /\ SetRepo(DeleteDocument(Repo, doc_type, doc_id))
    /\ UNCHANGED <<current_year, manual, threads>>

ClearAll(r) == save_data([r EXCEPT !.preventivi = <<>>, !.purchase_orders = <<>>])

clear_all ==
    /\ SetRepo(ClearAll(Repo))
    /\ UNCHANGED <<current_year, manual, threads>>

DeleteFattura_fileOnly(r, filename) == save_data([r EXCEPT !.outputs = @ \ {filename}])

DeleteFattura(r, filename) ==
    LET Keep(f) == f.filename # filename
    IN  save_data([r EXCEPT !.fatture_generate = SelectSeq(@, Keep),
                            !.outputs = @ \ {filename}])

delete_fattura(filename) ==
    /\ SetRepo(DeleteFattura(Repo, filename))
    /\ UNCHANGED <<current_year, manual, threads>>

DeleteAllFatture_restartNumbering(r) ==
    save_data([r EXCEPT
                 !.outputs = @ \ {r.fatture_generate[i].filename :
                                    i \in 1..Len(r.fatture_generate)},
                 !.fatture_generate = <<>>,
                 !.config.last_number_hg = 0,
                 !.config.last_number_hm = 0])

DeleteAllFatture(r) ==
    save_data([r EXCEPT
                 !.outputs = @ \ {r.fatture_generate[i].filename :
                                    i \in 1..Len(r.fatture_generate)},
                 !.fatture_generate = <<>>])

delete_all_fatture ==
    /\ SetRepo(DeleteAllFatture(Repo))
    /\ UNCHANGED <<current_year, manual, threads>>

\* update_numerazione: the repository it leaves and whether it accepted
UpdateNumerazione_unchecked(r, new_hm, new_hg) ==
    [repo |-> save_data([r EXCEPT !.config.last_number_hm = new_hm,
                                  !.config.last_number_hg = new_hg,
                                  !.hand_set = TRUE]),
     status |-> "success"]

UpdateNumerazione(r, new_hm, new_hg) ==
    IF new_hm < 0 \/ new_hg < 0
    THEN [repo |-> r, status |-> "error"]
    ELSE [repo |-> save_data([r EXCEPT !.config.last_number_hm = new_hm,
                                       !.config.last_number_hg = new_hg,
                                       !.hand_set = TRUE]),
          status |-> "success"]

update_numerazione(new_hm, new_hg) ==
    /\ SetRepo(UpdateNumerazione(Repo, new_hm, new_hg).repo)
    /\ manual' = (manual \/ UpdateNumerazione(Repo, new_hm, new_hg).status = "success")
    /\ UNCHANGED <<current_year, threads>>

\* the calendar year changes between two requests
NewYear ==
    /\ current_year < BaseYear + MaxYearSteps
    /\ current_year' = current_year + 1
    /\ issued' = NoIssue
    /\ manual' = FALSE
    /\ UNCHANGED <<preventivi, purchase_orders, fatture_generate, config, disk, outputs,
                   threads, hand_set>>

----------------------------------------------------------------------------
(* Specification *)

\* the threads of the server, and a thread that serves no generation request
Threads == {1, 2}
Idle == [pc |-> "idle", todo |-> <<>>]

\* load_data with neither hertz_data.json nor hertz_data_initial.json present
Init ==
    /\ preventivi = <<>>
    /\ purchase_orders = <<>>
    /\ fatture_generate = <<>>
    /\ config = [year |-> BaseYear, last_number_hg |-> 0, last_number_hm |-> 0]
    /\ disk = [preventivi |-> <<>>, purchase_orders |-> <<>>, fatture_generate |-> <<>>,
               config |-> [year |-> BaseYear, last_number_hg |-> 0, last_number_hm |-> 0]]
    /\ outputs = {}
    /\ current_year = BaseYear
    /\ issued = NoIssue
    /\ manual = FALSE
    /\ threads = [t \in Threads |-> Idle]
    /\ hand_set = FALSE

DocIds == {preventivi[i].id : i \in 1..Len(preventivi)}
            \cup {purchase_orders[i].id : i \in 1..Len(purchase_orders)} \cup {0}
NumerazioneInputs == {<<0, 0>>, <<-1, 0>>, <<0, -1>>, <<MaxNumber, 1>>}
FailSeqs == {<<>>} \cup [1..1 -> FailModes] \cup [1..2 -> FailModes]
Filenames == {fatture_generate[i].filename : i \in 1..Len(fatture_generate)}
                \cup outputs \cup {"missing.xml"}

Next ==
    \/ \E pdf \in Pdfs : process_pdf(pdf)
    \/ api_stats
    \/ \E p \in Pratiche, fail \in FailModes : genera_fattura(p, fail)
    \/ \E fails \in FailSeqs, turn \in 0..2 : genera_tutti(fails, turn)
    \/ \E t \in {"preventivo", "purchase_order"}, id \in DocIds : delete_document(t, id)
    \/ clear_all
    \/ \E f \in Filenames : delete_fattura(f)
    \/ delete_all_fatture
    \/ \E n \in NumerazioneInputs : update_numerazione(n[1], n[2])
    \/ NewYear

Spec == Init /\ [][Next]_vars

\* Purchase orders that differ in their date tokens only, uploaded into an
\* otherwise empty repository: the inputs of the date normalisation.
Tokens == {<<d1, s1, d2, s2, y>> : d1 \in 0..MaxField, s1 \in {"/", "-"},
                                   d2 \in 0..MaxField, s2 \in {"/", "-"},
                                   y \in {2023, 2024}}
EarlierToken == <<12, "-", 25, "-", 2024>>
DatedPdf(label, bare) == [PdfPO7 EXCEPT !.date_label = label, !.date_bare = bare]

\* one upload into the empty repository, then the repository is cleared
NextDate ==
    \/ /\ purchase_orders = <<>>
       /\ \E tok \in Tokens :
             \E pdf \in {DatedPdf(tok, tok), DatedPdf(NoToken, tok),
                         DatedPdf(tok, EarlierToken),
                         DatedPdf(NoToken, NoToken)} : process_pdf(pdf)
    \/ purchase_orders # <<>> /\ clear_all

SpecDate == Init /\ [][NextDate]_vars

\* Generation requests served by the threads of app.run (one thread per
\* request, nothing locks processor.data).  A thread may be switched out
\* between any two statements; the steps below are the three pieces whose
\* interleaving matters: get_stats, generate_xml up to the increment of the
\* counter, generate_xml from the read of the counter on.
Serve(t, pc, todo) == threads' = [threads EXCEPT ![t] = [pc |-> pc, todo |-> todo]]

\* genera_fattura up to the call of generate_xml: get_stats and the search
thread_genera_fattura(t, pratica_hertz) ==
    /\ threads[t].pc = "idle"
    /\ MatchFound(Repo, pratica_hertz) # <<>>
    /\ Serve(t, "count", MatchFound(Repo, pratica_hertz))
    /\ UNCHANGED <<preventivi, purchase_orders, fatture_generate, config, disk, outputs,
                   current_year, issued, manual, hand_set>>

\* genera_tutti up to the loop: get_stats and sorted
thread_genera_tutti(t) ==
    /\ threads[t].pc = "idle"
    /\ StatsOf(Repo).matches # <<>>
    /\ Serve(t, "count", SortedMatches(StatsOf(Repo).matches))
    /\ UNCHANGED <<preventivi, purchase_orders, fatture_generate, config, disk, outputs,
                   current_year, issued, manual, hand_set>>

thread_count(t) ==
    /\ threads[t].pc = "count"
    /\ CounterRoom(1)
    /\ SetRepo(CountInvoice(Repo, Head(threads[t].todo), current_year))
    /\ Serve(t, "issue", threads[t].todo)
    /\ UNCHANGED <<current_year, manual>>

thread_issue(t) ==
    /\ threads[t].pc = "issue"
    /\ SetRepo(IssueInvoice(Repo, Head(threads[t].todo), "ok", current_year).repo)
    /\ IF Tail(threads[t].todo) = <<>> THEN Serve(t, "idle", <<>>)
       ELSE Serve(t, "count", Tail(threads[t].todo))
    /\ UNCHANGED <<current_year, manual>>

\* uploads, while no generation request is being served
thread_upload(pdf) ==
    /\ \A t \in Threads : threads[t].pc = "idle"
    /\ process_pdf(pdf)

NextConc ==
    \/ \E pdf \in Pdfs : thread_upload(pdf)
    \/ \E t \in Threads, p \in Pratiche : thread_genera_fattura(t, p)
    \/ \E t \in Threads : thread_genera_tutti(t)
    \/ \E t \in Threads : thread_count(t)
    \/ \E t \in Threads : thread_issue(t)

SpecConc == Init /\ [][NextConc]_vars

----------------------------------------------------------------------------
(* Properties *)

\* what a single-match generation request answers in the current state
Answer(p, fail) == GeneraFattura(Repo, p, fail, current_year)

\* C1: every invoice issued by generate carries, in its category, the number
\* that follows the previous issuance of that category in the same calendar
\* year, and number 1 when it is the first issuance of the category in the
\* year (counters not set by hand in that year).
C1_NumberFollowsPreviousIssuance ==
    [][\A p \in Pratiche, fail \in FailModes :
          (genera_fattura(p, fail) /\ ~manual /\ Answer(p, fail).status = "success")
          => LET f == fatture_generate'[Len(fatture_generate')]
             IN  f.numero_fattura = issued[f.tipo] + 1]_vars

\* C2: a generation that fails while rendering or writing leaves both
\* counters, both active collections and the invoice records as they were.
C2_FailedGenerateLeavesNoTrace ==
    [][\A p \in Pratiche, fail \in FailModes :
          (genera_fattura(p, fail) /\ Answer(p, fail).status = "error")
          => /\ config'.last_number_hg = config.last_number_hg
             /\ config'.last_number_hm = config.last_number_hm
             /\ preventivi' = preventivi
             /\ purchase_orders' = purchase_orders
             /\ fatture_generate' = fatture_generate]_vars

\* the natural key of a document and where it lives
IsPreventivo(pdf) == detect_type(pdf) = "preventivo"
IsPurchaseOrder(pdf) == detect_type(pdf) = "purchase_order"

KeyActive(r, pdf) ==
    \/ IsPreventivo(pdf) /\ \E i \in 1..Len(r.preventivi) :
                               r.preventivi[i].pratica_hertz = pdf.pratica_hertz
    \/ IsPurchaseOrder(pdf) /\ \E i \in 1..Len(r.purchase_orders) :
                                  r.purchase_orders[i].po_number = pdf.po_number

KeyInvoiced(r, pdf) ==
    \/ IsPreventivo(pdf) /\ \E i \in 1..Len(r.fatture_generate) :
                               r.fatture_generate[i].pratica_hertz = pdf.pratica_hertz
    \/ IsPurchaseOrder(pdf) /\ \E i \in 1..Len(r.fatture_generate) :
                                  r.fatture_generate[i].po_number = pdf.po_number

FatturatoStatus(pdf) ==
    IF IsPreventivo(pdf) THEN "preventivo_fatturato" ELSE "purchase_order_fatturato"
NormalStatus(pdf) == IF IsPreventivo(pdf) THEN "preventivo" ELSE "purchase_order"

\* C3: no active estimate carries the case id of an invoice record and no
\* active purchase order carries the PO number of an invoice record.
C3_NoKeyActiveAndInvoiced ==
    /\ \A i \in 1..Len(preventivi), j \in 1..Len(fatture_generate) :
          preventivi[i].pratica_hertz # fatture_generate[j].pratica_hertz
    /\ \A i \in 1..Len(purchase_orders), j \in 1..Len(fatture_generate) :
          purchase_orders[i].po_number # fatture_generate[j].po_number

\* an invoice of case 1001 exists while another purchase order of that case
\* and the estimate of another case are active
C3_Witness ==
    /\ \E j \in 1..Len(fatture_generate) : fatture_generate[j].pratica_hertz = "1001"
    /\ \E i \in 1..Len(purchase_orders) : purchase_orders[i].pratica_hertz = "1001"
    /\ \E i \in 1..Len(preventivi) : preventivi[i].pratica_hertz = "1002"

\* C4: the active estimates never hold one case id twice, the active
\* purchase orders never hold one PO number twice, and ingesting a document
\* whose natural key is active leaves both active collections as they are.
C4_IngestKeepsKeysUnique ==
    /\ \A i, j \in 1..Len(preventivi) :
          i # j => preventivi[i].pratica_hertz # preventivi[j].pratica_hertz
    /\ \A i, j \in 1..Len(purchase_orders) :
          i # j => purchase_orders[i].po_number # purchase_orders[j].po_number
    /\ \A pdf \in Pdfs :
          KeyActive(Repo, pdf)
          => /\ ProcessPdf(Repo, pdf).repo.preventivi = preventivi
             /\ ProcessPdf(Repo, pdf).repo.purchase_orders = purchase_orders

\* every document of the universe is active and is ingested once more
C4_Witness ==
    /\ Len(preventivi) = 2
    /\ Len(purchase_orders) = 3
    /\ \A pdf \in Pdfs \ {PdfOther} :
          KeyActive(Repo, pdf) /\ ProcessPdf(Repo, pdf).status = NormalStatus(pdf)

\* C5: ingesting a document whose natural key is in an invoice record
\* answers the already-invoiced status and leaves the active estimates, the
\* active purchase orders, the invoices and the numbering state unchanged.
C5_InvoicedKeyIsRefused ==
    \A pdf \in Pdfs :
       KeyInvoiced(Repo, pdf)
       => /\ ProcessPdf(Repo, pdf).status = FatturatoStatus(pdf)
          /\ DataOf(ProcessPdf(Repo, pdf).repo) = DataOf(Repo)

\* case 1001 was invoiced with purchase order 7 and both documents come again
C5_Witness ==
    /\ KeyInvoiced(Repo, PdfPrevA)
    /\ KeyInvoiced(Repo, PdfPO7)
    /\ ProcessPdf(Repo, PdfPrevA).status = "preventivo_fatturato"
    /\ ProcessPdf(Repo, PdfPO7).status = "purchase_order_fatturato"

\* the repository after the invoice record(s) named `filename` are deleted,
\* by delete_fattura or by delete_all_fatture
AfterDeletion(filename) == {DeleteFattura(Repo, filename), DeleteAllFatture(Repo)}

Inserted(before, after, pdf) ==
    IF IsPreventivo(pdf)
    THEN /\ after.preventivi = Append(before.preventivi, parse_preventivo(pdf, pdf.now))
         /\ after.purchase_orders = before.purchase_orders
    ELSE /\ after.purchase_orders =
               Append(before.purchase_orders, parse_purchase_order(pdf, pdf.now))
         /\ after.preventivi = before.preventivi

\* C6: a document is answered as already invoiced only while an invoice
\* record carries its natural key: once that record is deleted
\* (delete_fattura, delete_all_fatture), ingesting the estimate or the
\* purchase order again inserts it and answers the normal status.
C6_DeletedInvoiceReopensKey ==
    /\ \A pdf \in Pdfs :
          ProcessPdf(Repo, pdf).status = FatturatoStatus(pdf) => KeyInvoiced(Repo, pdf)
    /\ \A i \in 1..Len(fatture_generate) :
          \A r \in AfterDeletion(fatture_generate[i].filename) :
             \A pdf \in Pdfs :
                (\/ IsPreventivo(pdf)
                       /\ pdf.pratica_hertz = fatture_generate[i].pratica_hertz
                 \/ IsPurchaseOrder(pdf)
                       /\ pdf.po_number = fatture_generate[i].po_number)
                => /\ ProcessPdf(r, pdf).status = NormalStatus(pdf)
                   /\ Inserted(r, ProcessPdf(r, pdf).repo, pdf)

\* purchase order 7 is refused as invoiced, and accepted once the invoice
\* that carries it is deleted
C6_Witness ==
    \E i \in 1..Len(fatture_generate) :
       /\ fatture_generate[i].po_number = "7"
       /\ ProcessPdf(Repo, PdfPO7).status = "purchase_order_fatturato"
       /\ ProcessPdf(DeleteFattura(Repo, fatture_generate[i].filename), PdfPO7).status
             = "purchase_order"

\* the category of a match and the counter of a category
CategoryOf(m) == IF m.po.has_tyres THEN "HG" ELSE "HM"
CounterOf(cfg, c) == IF c = "HG" THEN cfg.last_number_hg ELSE cfg.last_number_hm
OtherCategory(c) == IF c = "HG" THEN "HM" ELSE "HG"

\* a counter as it stands once the stored year is the calendar year
AfterYearCheck(n) == IF config.year = current_year THEN n ELSE 0

\* each counter equals the number of invoice records of its category: no
\* generation has failed, no counter was set by hand, no invoice was deleted
CountersMatchRecords ==
    \A c \in {"HG", "HM"} :
       CounterOf(config, c) =
          Cardinality({i \in 1..Len(fatture_generate) : fatture_generate[i].tipo = c})

C8_GenerateRecordsAndRetires ==
    \A p \in Pratiche :
       MatchFound(Repo, p) # <<>>
       => LET E == MatchFound(Repo, p)[1].preventivo
              P == MatchFound(Repo, p)[1].po
              res == GeneraFattura(Repo, p, "ok", current_year)
              after == res.repo
              n == Len(fatture_generate)
              f == after.fatture_generate[n + 1]
              OtherPrev(d) == d.pratica_hertz # E.pratica_hertz
              OtherPo(d) == d.po_number # P.po_number
          IN  /\ res.status = "success"
              /\ Len(after.fatture_generate) = n + 1
              /\ SubSeq(after.fatture_generate, 1, n) = fatture_generate
              /\ f.po_number = P.po_number
              /\ f.pratica_hertz = E.pratica_hertz
              /\ f.tipo = CategoryOf([po |-> P])
              /\ f.numero_fattura = CounterOf(after.config, f.tipo)
              /\ after.preventivi = SelectSeq(preventivi, OtherPrev)
              /\ after.purchase_orders = SelectSeq(purchase_orders, OtherPo)
              /\ (/\ preventivi = <<E>>
                  /\ purchase_orders = <<P>>
                  /\ E.pratica_hertz = "1001"
                  /\ ~P.has_tyres
                  /\ fatture_generate = <<>>
                  /\ config.last_number_hg = 0
                  /\ config.last_number_hm = 0)
                 => /\ f.numero_fattura = 1
                    /\ f.tipo = "HM"
                    /\ after.preventivi = <<>>
                    /\ after.purchase_orders = <<>>

\* the scenario has run: one record, number 1 of HM for case 1001 and
\* purchase order 7, nothing active
C8_Witness ==
    /\ Len(fatture_generate) = 1
    /\ fatture_generate[1].pratica_hertz = "1001"
    /\ fatture_generate[1].po_number = "7"
    /\ fatture_generate[1].numero_fattura = 1
    /\ fatture_generate[1].tipo = "HM"
    /\ preventivi = <<>>
    /\ purchase_orders = <<>>

\* the estimate documents of a case id
EstimatesOf(pratica_hertz) ==
    {pdf \in Pdfs : IsPreventivo(pdf) /\ pdf.pratica_hertz = pratica_hertz}

\* C9: for every invoice generate issues, totalWithoutTax is the sum of the
\* matched estimate's line-item totals, which is the estimate's stored
\* totale; vatAmount is 22% of it; the record's total is their sum; line
\* items summing to 1000.00 give 220.00 and 1220.00.  Every stored record
\* carries 122% of the line items of its case's estimate.
C9_TotalsAndVat ==
    /\ \A p \in Pratiche :
          MatchFound(Repo, p) # <<>>
          => LET m == MatchFound(Repo, p)[1]
                 res == generate_xml(Repo, m, "ok", current_year)
                 f == res.repo.fatture_generate[Len(fatture_generate) + 1]
             IN  /\ res.total_without_tax = SumTotals(m.preventivo.items)
                 /\ res.total_without_tax = m.preventivo.totale
                 /\ res.vat_amount * 100 = res.total_without_tax * 22
                 /\ f.totale = res.total_without_tax + res.vat_amount
                 /\ res.total_without_tax = Eur(1000, 0)
                    => res.vat_amount = Eur(220, 0) /\ f.totale = Eur(1220, 0)
    /\ \A i \in 1..Len(fatture_generate) :
          \A pdf \in EstimatesOf(fatture_generate[i].pratica_hertz) :
             fatture_generate[i].totale * 100 = SumTotals(pdf.items) * 122

\* the invoices of 1000.00 + 22% and of 3.33 + 22% are both on record
C9_Witness ==
    /\ \E i \in 1..Len(fatture_generate) : fatture_generate[i].totale = Eur(1220, 0)
    /\ \E i \in 1..Len(fatture_generate) : fatture_generate[i].totale = Eur(4, 6) + 26

\* C10: get_stats changes nothing: the active estimates, the active purchase
\* orders, the invoice records and the numbering state are after the call
\* what they were before it, and a second call right after the first
\* answers the same matches and pending lists.
C10_GetStatsIsPureRead ==
    /\ DataOf(ApiStats(Repo).repo) = DataOf(Repo)
    /\ ApiStats(ApiStats(Repo).repo).stats = ApiStats(Repo).stats

\* a state with a match, a pending document and an invoice on record
C10_Witness ==
    /\ StatsOf(Repo).matches # <<>>
    /\ Len(StatsOf(Repo).prev_in_attesa) + Len(StatsOf(Repo).po_in_attesa) > 0
    /\ fatture_generate # <<>>

\* a token read as year, month, day is a date of the calendar
ValidCalendarDate(y, m, d) ==
    /\ y \in 1..9999
    /\ m \in 1..12
    /\ d >= 1
    /\ d <= DaysInMonth(y, m)

DayFirst(tok) == tok[2] = tok[4] /\ ValidCalendarDate(tok[5], tok[3], tok[1])
MonthFirst(tok) == tok[2] = tok[4] /\ ValidCalendarDate(tok[5], tok[1], tok[3])

\* what the claim says a token gives
ExpectedDate(tok) ==
    IF DayFirst(tok) THEN <<tok[5], tok[3], tok[1]>>
    ELSE IF MonthFirst(tok) THEN <<tok[5], tok[1], tok[3]>>
    ELSE NoDate

PairsOfPreventivo(E) ==
    {k \in 1..Len(StatsOf(Repo).matches) : StatsOf(Repo).matches[k].preventivo = E}
PairsOfPurchaseOrder(P) ==
    {k \in 1..Len(StatsOf(Repo).matches) : StatsOf(Repo).matches[k].po = P}
PendingPreventivo(E) ==
    \E k \in 1..Len(StatsOf(Repo).prev_in_attesa) : StatsOf(Repo).prev_in_attesa[k] = E
PendingPurchaseOrder(P) ==
    \E k \in 1..Len(StatsOf(Repo).po_in_attesa) : StatsOf(Repo).po_in_attesa[k] = P

\* the active purchase orders, by position, that are not invoiced and carry
\* the case id of estimate E
OpenOrdersOf(E) ==
    {j \in 1..Len(purchase_orders) :
        /\ purchase_orders[j].pratica_hertz = E.pratica_hertz
        /\ \A f \in 1..Len(fatture_generate) :
              fatture_generate[f].po_number # purchase_orders[j].po_number}

\* C12: get_stats pairs every active estimate that has an active, not
\* invoiced purchase order of its case id with the first such purchase order
\* in stored order, exactly once; it pairs no other estimate, and no pair
\* holds a purchase order whose number is invoiced.
C12_FirstOpenOrderIsMatched ==
    /\ \A i \in 1..Len(preventivi) :
          LET E == preventivi[i]
          IN  IF OpenOrdersOf(E) # {}
              THEN /\ Cardinality(PairsOfPreventivo(E)) = 1
                   /\ \A k \in PairsOfPreventivo(E) :
                         /\ StatsOf(Repo).matches[k].po \in
                               {purchase_orders[j] : j \in OpenOrdersOf(E)}
                         /\ \A j \in OpenOrdersOf(E) :
                               purchase_orders[j] = StatsOf(Repo).matches[k].po
                               => \A j2 \in OpenOrdersOf(E) : j <= j2
              ELSE PairsOfPreventivo(E) = {}
    /\ \A k \in 1..Len(StatsOf(Repo).matches) :
          /\ \E i \in 1..Len(preventivi) : StatsOf(Repo).matches[k].preventivo = preventivi[i]
          /\ \A f \in 1..Len(fatture_generate) :
                fatture_generate[f].po_number # StatsOf(Repo).matches[k].po.po_number

\* purchase orders 9 and 7 of case 1001 are stored in that order and the
\* estimate of the case is paired with purchase order 9, while an invoice of
\* another case is on record
C12_Witness ==
    /\ Len(purchase_orders) >= 2
    /\ purchase_orders[1].po_number = "9"
    /\ purchase_orders[2].po_number = "7"
    /\ \E k \in 1..Len(StatsOf(Repo).matches) :
          /\ StatsOf(Repo).matches[k].preventivo.pratica_hertz = "1001"
          /\ StatsOf(Repo).matches[k].po.po_number = "9"
    /\ fatture_generate # <<>>

\* C13: in the result of get_stats every active estimate is in exactly one
\* pair or in prev_in_attesa, not both, and every active purchase order that
\* is not invoiced is in exactly one pair or in po_in_attesa, not both and
\* not neither.
C13_MatchedOrPending ==
    /\ \A i \in 1..Len(preventivi) :
          LET E == preventivi[i]
          IN  /\ Cardinality(PairsOfPreventivo(E)) <= 1
              /\ (Cardinality(PairsOfPreventivo(E)) = 1) # PendingPreventivo(E)
    /\ \A j \in 1..Len(purchase_orders) :
          LET P == purchase_orders[j]
          IN  ~is_po_invoiced(fatture_generate, P.po_number)
              => /\ Cardinality(PairsOfPurchaseOrder(P)) <= 1
                 /\ (Cardinality(PairsOfPurchaseOrder(P)) = 1) # PendingPurchaseOrder(P)

\* the batches that can be requested in the current state
Batches ==
    {b \in FailSeqs \X (0..2) :
        /\ Len(b[1]) = Len(StatsOf(Repo).matches)
        /\ b[2] \in Turns(Len(b[1]))}

\* date a is not after date b, an unset date being after every date
NotAfter(a, b) == b = NoDate \/ (a # NoDate /\ DateLE(a, b))
Earlier(a, b) == a # NoDate /\ b # NoDate /\ ~DateLE(b, a)

\* the records from position n + 1 on are in ascending order of data_po
AscendingFrom(fatture, n) ==
    \A i, j \in (n + 1)..Len(fatture) :
       i < j => NotAfter(fatture[i].data_po, fatture[j].data_po)

\* C14 (as stated): genera_tutti issues its invoices in ascending order of
\* the purchase order's date, undated ones last, and of two invoices of one
\* batch and one category the one whose purchase order has the strictly
\* earlier date has the smaller number.
C14_EarlierDateSmallerNumber ==
    [][\A fails \in FailSeqs, turn \in 0..2 :
          genera_tutti(fails, turn)
          => LET n == Len(fatture_generate)
             IN  /\ AscendingFrom(fatture_generate', n)
                 /\ \A i, j \in (n + 1)..Len(fatture_generate') :
                       (/\ fatture_generate'[i].tipo = fatture_generate'[j].tipo
                        /\ Earlier(fatture_generate'[i].data_po, fatture_generate'[j].data_po))
                       => fatture_generate'[i].numero_fattura <
                             fatture_generate'[j].numero_fattura]_vars

\* C14 (amended): the same, for two invoices of one batch and one category
\* that are generated in the same calendar year.
C14_EarlierDateSmallerNumberInYear ==
    \A b \in Batches :
       LET after == GeneraTutti(Repo, b[1], current_year, b[2]).repo.fatture_generate
           n == Len(fatture_generate)
       IN  /\ SubSeq(after, 1, n) = fatture_generate
           /\ AscendingFrom(after, n)
           /\ \A i, j \in (n + 1)..Len(after) :
                 (/\ after[i].tipo = after[j].tipo
                  /\ after[i].data_generazione = after[j].data_generazione
                  /\ Earlier(after[i].data_po, after[j].data_po))
                 => after[i].numero_fattura < after[j].numero_fattura

\* case 1002 with purchase order 8 of 2024-01-05 holds number 1 and case
\* 1001 with purchase order 7 of 2024-12-25 number 2 of the same year
C14_Witness ==
    /\ Len(fatture_generate) = 2
    /\ fatture_generate[1].po_number = "8"
    /\ fatture_generate[1].numero_fattura = 1
    /\ fatture_generate[2].po_number = "7"
    /\ fatture_generate[2].numero_fattura = 2
    /\ fatture_generate[1].tipo = fatture_generate[2].tipo
    /\ fatture_generate[1].data_generazione = fatture_generate[2].data_generazione
    /\ Earlier(fatture_generate[1].data_po, fatture_generate[2].data_po)

\* the matches of a batch whose generation does not fail
RECURSIVE OkMatches(_, _)
OkMatches(ms, fails) ==
    IF ms = <<>> THEN <<>>
    ELSE (IF Head(fails) = "ok" THEN <<Head(ms)>> ELSE <<>>)
            \o OkMatches(Tail(ms), Tail(fails))

AllOk(n) == [i \in 1..n |-> "ok"]

\* the batch with the failing matches left out of it
WithoutFailed(fails) ==
    LET ms == OkMatches(SortedMatches(StatsOf(Repo).matches), fails)
    IN  GenerateEach(Repo, ms, AllOk(Len(ms)), current_year, Len(ms), 1, <<>>)

\* C15: in a batch of genera_tutti (within one calendar year) every match
\* whose generation does not fail gets its invoice whichever others fail,
\* the reported list holds exactly those, a failed match keeps its estimate
\* and purchase order active and gets no record, and the later matches get
\* the numbers they would have got without the failed match in the batch.
C15_FailedMatchLeavesBatchUntouched ==
    \A b \in Batches :
       b[2] = Len(b[1])
       => LET fails == b[1]
              ms == SortedMatches(StatsOf(Repo).matches)
              res == GeneraTutti(Repo, fails, current_year, b[2])
              alt == WithoutFailed(fails)
              n == Len(fatture_generate)
              new == SubSeq(res.repo.fatture_generate, n + 1,
                            Len(res.repo.fatture_generate))
              altnew == SubSeq(alt.repo.fatture_generate, n + 1,
                               Len(alt.repo.fatture_generate))
              ok == OkMatches(ms, fails)
          IN  /\ Len(new) = Len(ok)
              /\ Len(res.generated) = Len(ok)
              /\ \A k \in 1..Len(ok) :
                    /\ new[k].po_number = ok[k].po.po_number
                    /\ new[k].pratica_hertz = ok[k].preventivo.pratica_hertz
                    /\ res.generated[k].filename = new[k].filename
              /\ \A i \in 1..Len(ms) :
                    fails[i] # "ok"
                    => /\ \E k \in 1..Len(res.repo.preventivi) :
                             res.repo.preventivi[k] = ms[i].preventivo
                       /\ \E k \in 1..Len(res.repo.purchase_orders) :
                             res.repo.purchase_orders[k] = ms[i].po
                       /\ \A k \in 1..Len(new) : new[k].po_number # ms[i].po.po_number
              /\ Len(altnew) = Len(new)
              /\ \A k \in 1..Len(new) : new[k].numero_fattura = altnew[k].numero_fattura

\* the plate a filename carries: the estimate's, else the purchase order's
PlateOf(m) ==
    IF m.preventivo.targa # None /\ m.preventivo.targa # "" THEN m.preventivo.targa
    ELSE IF m.po.targa # None /\ m.po.targa # "" THEN m.po.targa
    ELSE "NOTARGA"

\* C16: the file of a generated invoice is named
\* [YYYYMMDD_]Fatt_<number, 3 digits>_PO_<po_number>_<plate>.xml, the prefix
\* being the digits of the purchase order's date when it has one, the plate
\* the estimate's, else the purchase order's, else NOTARGA; the record
\* stores the name of the file written.
C16_FilenameCarriesDateNumberPoPlate ==
    \A p \in Pratiche :
       MatchFound(Repo, p) # <<>>
       => LET m == MatchFound(Repo, p)[1]
              res == generate_xml(Repo, m, "ok", current_year)
              f == res.repo.fatture_generate[Len(fatture_generate) + 1]
          IN  /\ f.filename = DatePrefix(m.po.date) \o "Fatt_" \o zfill3(f.numero_fattura)
                                 \o "_PO_" \o m.po.po_number \o "_" \o PlateOf(m) \o ".xml"
              /\ f.filename = res.filename
              /\ res.repo.outputs = outputs \cup {f.filename}

\* C17: between two operations hertz_data.json holds the repository that is
\* in memory: active estimates, active purchase orders, invoices, numbering.
C17_DiskMirrorsMemory ==
    disk = [preventivi |-> preventivi, purchase_orders |-> purchase_orders,
            fatture_generate |-> fatture_generate, config |-> config]

\* C18: generation requests do not interleave, so no purchase-order
\* number has two invoice records and no number is issued twice in one
\* category and year.
C18_NoDoubleInvoice ==
    \A i, j \in 1..Len(fatture_generate) :
       i < j
       => /\ fatture_generate[i].po_number # fatture_generate[j].po_number
          /\ ~(/\ fatture_generate[i].tipo = fatture_generate[j].tipo
               /\ fatture_generate[i].data_generazione = fatture_generate[j].data_generazione
               /\ fatture_generate[i].numero_fattura = fatture_generate[j].numero_fattura)

\* the repositories the delete operations can leave from the current state
AfterAnyDelete ==
    {DeleteFattura(Repo, f) : f \in Filenames} \cup {DeleteAllFatture(Repo), ClearAll(Repo)}
       \cup {DeleteDocument(Repo, t, id) : t \in {"preventivo", "purchase_order"},
                                            id \in DocIds}

\* the largest number a category may have had issued before a record that
\* is generated in year y: the last one issued in the current calendar year
IssuedBefore(c, y) == IF y = current_year THEN issued[c] ELSE 0

\* the records after the n-th carry, per category and year of generation,
\* increasing numbers, all above the numbers issued before
FreshNumbersFrom(fatture, n) ==
    /\ \A k \in (n + 1)..Len(fatture) :
          fatture[k].numero_fattura >
             IssuedBefore(fatture[k].tipo, fatture[k].data_generazione)
    /\ \A k1, k2 \in (n + 1)..Len(fatture) :
          (/\ k1 < k2
           /\ fatture[k1].tipo = fatture[k2].tipo
           /\ fatture[k1].data_generazione = fatture[k2].data_generazione)
          => fatture[k1].numero_fattura < fatture[k2].numero_fattura

\* C19: delete_fattura, delete_all_fatture, delete_document and clear_all
\* leave the numbering state as it is; and with no manual counter update in
\* the calendar year, every invoice that a generate or a generateAll issues
\* carries a number above every number issued before in its category and
\* year, whether or not the invoices that carried those are still on record.
C19_NumbersNeverReissued ==
    /\ \A r \in AfterAnyDelete : r.config = config
    /\ ~manual
       => /\ \A p \in Pratiche, fail \in FailModes :
                FreshNumbersFrom(GeneraFattura(Repo, p, fail, current_year).repo.fatture_generate,
                                 Len(fatture_generate))
          /\ \A b \in Batches :
                FreshNumbersFrom(GeneraTutti(Repo, b[1], current_year, b[2]).repo.fatture_generate,
                                 Len(fatture_generate))

\* number 1 of HM was issued this year and its invoice is deleted; the
\* match that is ready now gets number 2
C19_Witness ==
    /\ ~manual
    /\ issued["HM"] = 1
    /\ fatture_generate = <<>>
    /\ \E p \in Pratiche :
          /\ Answer(p, "ok").status = "success"
          /\ Answer(p, "ok").repo.fatture_generate[1].tipo = "HM"
          /\ Answer(p, "ok").repo.fatture_generate[1].numero_fattura = 2

\* the counter updates with a negative value
NegativeUpdates ==
    {n \in (-1..MaxNumber) \X (-1..MaxNumber) : n[1] < 0 \/ n[2] < 0}

\* no counter is negative and a negative update is refused with the
\* numbering state as it was
CountersStayNatural ==
    /\ config.last_number_hg >= 0
    /\ config.last_number_hm >= 0
    /\ \A n \in NegativeUpdates :
          /\ UpdateNumerazione(Repo, n[1], n[2]).status = "error"
          /\ UpdateNumerazione(Repo, n[1], n[2]).repo.config = config

\* every record issued in the stored year carries a number that is at most
\* its category's counter
CountersCoverRecords ==
    \A i \in 1..Len(fatture_generate) :
       fatture_generate[i].data_generazione = config.year
       => fatture_generate[i].numero_fattura
             <= CounterOf(config, fatture_generate[i].tipo)

\* C20 (as stated): the counters are never negative, a negative update is
\* refused with the counters unchanged and, with no manual counter update in
\* the current calendar year, each counter is at least the number of every
\* record of its category issued in the stored year.
C20_CountersBoundRecords ==
    /\ CountersStayNatural
    /\ ~manual => CountersCoverRecords

\* C20 (amended): the same, with no manual counter update since the counters
\* were last reset for a new year (none at all if they never were).
C20_CountersBoundRecordsSinceReset ==
    /\ CountersStayNatural
    /\ ~hand_set => CountersCoverRecords

\* two HM invoices of the stored year are on record under a counter of 2
\* that no manual update has touched, and the update (-1, 0) is refused
C20_Witness ==
    /\ ~hand_set
    /\ config.last_number_hm = 2
    /\ \E i, j \in 1..Len(fatture_generate) :
          /\ fatture_generate[i].tipo = "HM" /\ fatture_generate[i].numero_fattura = 1
          /\ fatture_generate[j].tipo = "HM" /\ fatture_generate[j].numero_fattura = 2
          /\ fatture_generate[i].data_generazione = config.year
          /\ fatture_generate[j].data_generazione = config.year
    /\ UpdateNumerazione(Repo, -1, 0).status = "error"

====
